---- MODULE Spec2Model ----
(***************************************************************************)
(* Model of diskimage_builder/element_dependencies.py: the search-path     *)
(* lookup _get_set (with its wrappers dependencies and provides) and the   *)
(* worklist algorithm expand_dependencies.                                 *)
(*                                                                         *)
(* A string is a sequence of symbols.  A symbol is either a whitespace     *)
(* character or a maximal chunk of non-whitespace characters, so that      *)
(* str.strip() can be modelled by what it does.                            *)
(***************************************************************************)
EXTENDS Integers, Sequences, FiniteSets, TLC

\* ---------------------------------------------------------------- bounds
NPath == 3          \* number of entries of ELEMENTS_PATH
MaxLines == 4       \* lines of metadata in the whole store (expansion runs)
MaxUser == 2        \* length of the user_elements list

\* ------------------------------------------------------- program constants
ENOENT == 2         \* the errno value the handler tests for

\* --------------------------------------------------------------- strings
Whitespace == {" ", "\t", "\n"}

A == <<"A">>
B == <<"B">>
OS == <<"operating-system">>
Names == {A, B, OS}

DEPS == "element-deps"
PROVIDES == "element-provides"
FNames == {DEPS, PROVIDES}

RECURSIVE lstrip(_)
lstrip(s) == IF s # <<>> /\ Head(s) \in Whitespace THEN lstrip(Tail(s)) ELSE s

RECURSIVE rstrip(_)
rstrip(s) ==
  IF s # <<>> /\ s[Len(s)] \in Whitespace THEN rstrip(SubSeq(s, 1, Len(s) - 1)) ELSE s

\* line.strip()
strip(s) == rstrip(lstrip(s))

Range(q) == {q[k] : k \in DOMAIN q}

\* all orders in which the members of a set can be iterated
RECURSIVE Orders(_)
Orders(S) ==
  IF S = {} THEN {<<>>}
  ELSE UNION {{<<x>> \o t : t \in Orders(S \ {x})} : x \in S}

\* all rearrangements of a list (repeats kept)
Rearrangements(q) ==
  {[k \in DOMAIN q |-> q[p[k]]] : p \in {f \in [DOMAIN q -> DOMAIN q] : Range(f) = DOMAIN q}}

VARIABLES
  fs,              \* the file system under the search path: entry -> element -> directory
  user_elements,   \* the list handed to expand_dependencies
  final_elements, check_queue, provided, provided_by,
  pc,              \* "loop" | "returned" | "exited" | "raised"; "idle" outside a call
  outcome,         \* "none" | "running" | "ok" | "ElementNotFound" | "IOError"
                   \* | "MissingOperatingSystem" | "ConflictingElements"
  result,          \* the returned set (only meaningful when outcome = "ok")
  report,          \* the logged "already provided by" lines
  processed,       \* history: elements whose metadata was fetched, in order
  skipped,         \* history: elements dequeued while in provided
  queries,         \* history: the _get_set calls issued, in order
  call,            \* 1 for the first call, 2 for the second
  how,             \* second call: "same" user set reordered | "closure" as user set
  first,           \* what the first call ended with
  lk,              \* the last standalone lookup (lookup specification)
  mn               \* the command: its arguments, what it logged and printed

vars == <<fs, user_elements, final_elements, check_queue, provided, provided_by, pc,
          outcome, result, report, processed, skipped, queries, call, how, first, lk, mn>>

\* ----------------------------------------------------------- file system
NoFile == [errno |-> ENOENT, lines |-> <<>>]
Denied == [errno |-> 13, lines |-> <<>>]
File(lines) == [errno |-> 0, lines |-> lines]
NoDir == [exists |-> FALSE, file |-> [f \in FNames |-> NoFile]]
EmptyDir == [exists |-> TRUE, file |-> [f \in FNames |-> NoFile]]

\* os.path.join(path, element) as seen by os.path.exists and open
Dir(i, element) == IF element \in DOMAIN fs[i] THEN fs[i][element] ELSE NoDir

\* open(os.path.join(path, element, fname)): errno 0 and the lines, or the errno
Open(i, element, fname) == Dir(i, element).file[fname]

\* os.path.exists(os.path.join(path, element))
Exists(i, element) == Dir(i, element).exists

Exit(i) == [kind |-> "exit", val |-> {}, tried |-> i]
Raise(i) == [kind |-> "raise", val |-> {}, tried |-> i]
Return(v, i) == [kind |-> "set", val |-> v, tried |-> i]

\* a lookup that ignores the os.path.exists test and always moves on
RECURSIVE GetSetFrom_noexists(_, _, _)
GetSetFrom_noexists(i, element, fname) ==
  IF i > NPath THEN Exit(NPath)
  ELSE LET r == Open(i, element, fname) IN
    IF r.errno = 0 THEN Return({strip(r.lines[k]) : k \in DOMAIN r.lines}, i)
    ELSE IF r.errno = ENOENT THEN GetSetFrom_noexists(i + 1, element, fname)
    ELSE Raise(i)

\* a lookup that gives up at the first entry without the element's directory
RECURSIVE GetSetFrom_exitearly(_, _, _)
GetSetFrom_exitearly(i, element, fname) ==
  IF i > NPath THEN Exit(NPath)
  ELSE LET r == Open(i, element, fname) IN
    IF r.errno = 0 THEN Return({strip(r.lines[k]) : k \in DOMAIN r.lines}, i)
    ELSE IF Exists(i, element) /\ r.errno = ENOENT THEN Return({}, i)
    ELSE IF r.errno = ENOENT THEN Exit(i)
    ELSE Raise(i)

\* the for loop of _get_set from entry i on; tried = the last entry consulted
RECURSIVE GetSetFrom(_, _, _)
GetSetFrom(i, element, fname) ==
  IF i > NPath THEN Exit(NPath)
  ELSE LET r == Open(i, element, fname) IN
    IF r.errno = 0 THEN Return({strip(r.lines[k]) : k \in DOMAIN r.lines}, i)
    ELSE IF Exists(i, element) /\ r.errno = ENOENT THEN Return({}, i)
    ELSE IF r.errno = ENOENT THEN GetSetFrom(i + 1, element, fname)
    ELSE Raise(i)

_get_set(element, fname) == GetSetFrom(1, element, fname)
provides(element) == _get_set(element, PROVIDES)
dependencies(element) == _get_set(element, DEPS)

\* ------------------------------------------------- expand_dependencies
\* final_elements = set(user_elements), but started empty
InitialFinal_empty(user) == {}

\* final_elements = set(user_elements)
InitialFinal(user) == Range(user)

\* element in provided, negated
IsProvided_negated(element, prov) == element \notin prov

\* the test `element in provided` that skips a dequeued element
IsProvided(element, prov) == element \in prov

\* provided_by[name] with the defaultdict's empty list
Providers(pb, name) == IF name \in DOMAIN pb THEN pb[name] ELSE <<>>

\* provided_by[provide] = [element]: an earlier provider is overwritten
RecordProviders_overwrite(pb, element, provs) ==
  [n \in DOMAIN pb \cup provs |-> IF n \in provs THEN <<element>> ELSE pb[n]]

\* for provide in element_provides: provided_by[provide].append(element)
RecordProviders(pb, element, provs) ==
  [n \in DOMAIN pb \cup provs |->
     IF n \in provs THEN Append(Providers(pb, n), element) ELSE pb[n]]

\* provided is overwritten with the provides of the element at hand
UpdateProvided_replace(prov, provs) == provs

\* provided.update(element_provides)
UpdateProvided(prov, provs) == prov \cup provs

\* nothing newly discovered is ever queued
NewElements_none(deps, final, prov) == {}

\* element_deps - (final_elements | provided)
NewElements(deps, final, prov) == deps \ (final \cup prov)

\* the new elements are not put on the queue
Extend_dropped(queue, new) == queue

\* check_queue.extend(...), the new elements in the set's iteration order
Extend(queue, new) == queue \o new

\* final_elements left as it was
UpdateFinal_forgotten(final, deps) == final

\* final_elements.update(element_deps)
UpdateFinal(final, deps) == final \cup deps

\* the conflict test never finds anything
Conflicts_none(user, prov) == {}

\* conflicts = set(user_elements) & provided
Conflicts(user, prov) == Range(user) \cap prov

\* the two validations in the other order
Validate_conflictsfirst(user, prov) ==
  IF Conflicts(user, prov) # {} THEN "ConflictingElements"
  ELSE IF OS \notin prov THEN "MissingOperatingSystem"
  ELSE "ok"

\* the code after the loop: which way the call ends
Validate(user, prov) ==
  IF OS \notin prov THEN "MissingOperatingSystem"
  ELSE IF Conflicts(user, prov) # {} THEN "ConflictingElements"
  ELSE "ok"

\* the provided names are returned as well
Closure_withprovided(final, prov) == final \cup prov

\* the provided names are not taken out
Closure_all(final, prov) == final

\* return final_elements - provided
Closure(final, prov) == final \ prov

\* the two lookups of one loop iteration, in order, stopping at the first failure
Fetch(element) ==
  LET d == dependencies(element)
      p == provides(element)
  IN IF d.kind # "set"
       THEN [kind |-> d.kind, deps |-> {}, provs |-> {}, asked |-> <<<<element, DEPS>>>>]
     ELSE [kind |-> p.kind, deps |-> d.val, provs |-> IF p.kind = "set" THEN p.val ELSE {},
           asked |-> <<<<element, DEPS>>, <<element, PROVIDES>>>>]

AtLoop == pc = "loop" /\ check_queue # <<>>
AfterLoop == pc = "loop" /\ check_queue = <<>>
Ended == pc \in {"returned", "exited", "raised"}

\* the provided element is not dropped: it goes back to the end of the queue
Skip_requeue ==
  /\ AtLoop
  /\ IsProvided(Head(check_queue), provided)
  /\ check_queue' = Append(Tail(check_queue), Head(check_queue))
  /\ skipped' = skipped \cup {Head(check_queue)}
  /\ UNCHANGED <<fs, user_elements, final_elements, provided, provided_by, pc, outcome,
                 result, report, processed, queries, call, how, first, lk, mn>>

\* the provided element is dropped only after its two files were read
Skip_fetches ==
  /\ AtLoop
  /\ IsProvided(Head(check_queue), provided)
  /\ LET m == Fetch(Head(check_queue))
     IN /\ m.kind = "set"
        /\ queries' = queries \o m.asked
  /\ check_queue' = Tail(check_queue)
  /\ skipped' = skipped \cup {Head(check_queue)}
  /\ UNCHANGED <<fs, user_elements, final_elements, provided, provided_by, pc, outcome,
                 result, report, processed, call, how, first, lk, mn>>

\* lines 99-101: the dequeued element is already provided
Skip ==
  /\ AtLoop
  /\ IsProvided(Head(check_queue), provided)
  /\ check_queue' = Tail(check_queue)
  /\ skipped' = skipped \cup {Head(check_queue)}
  /\ UNCHANGED <<fs, user_elements, final_elements, provided, provided_by, pc, outcome,
                 result, report, processed, queries, call, how, first, lk, mn>>

\* lines 99-110: the dequeued element is looked up and expanded
Expand ==
  /\ AtLoop
  /\ ~IsProvided(Head(check_queue), provided)
  /\ LET element == Head(check_queue)
         m == Fetch(element)
         prov2 == UpdateProvided(provided, m.provs)
     IN /\ m.kind = "set"
        /\ provided_by' = RecordProviders(provided_by, element, m.provs)
        /\ provided' = prov2
        /\ \E new \in Orders(NewElements(m.deps, final_elements, prov2)) :
             check_queue' = Extend(Tail(check_queue), new)
        /\ final_elements' = UpdateFinal(final_elements, m.deps)
        /\ processed' = Append(processed, element)
        /\ queries' = queries \o m.asked
  /\ UNCHANGED <<fs, user_elements, pc, outcome, result, report, skipped, call, how,
                 first, lk, mn>>

\* the failed lookup is logged but the loop goes on
ElementNotFound_goeson ==
  /\ AtLoop
  /\ ~IsProvided(Head(check_queue), provided)
  /\ LET m == Fetch(Head(check_queue))
     IN /\ m.kind = "exit"
        /\ queries' = queries \o m.asked
  /\ check_queue' = Tail(check_queue)
  /\ UNCHANGED <<fs, user_elements, final_elements, provided, provided_by, pc, outcome,
                 result, report, processed, skipped, call, how, first, lk, mn>>

\* lines 102-103 ending in lines 50-51: no entry holds the element, sys.exit(-1)
ElementNotFound ==
  /\ AtLoop
  /\ ~IsProvided(Head(check_queue), provided)
  /\ LET m == Fetch(Head(check_queue))
     IN /\ m.kind = "exit"
        /\ queries' = queries \o m.asked
  /\ check_queue' = Tail(check_queue)
  /\ pc' = "exited"
  /\ outcome' = "ElementNotFound"
  /\ UNCHANGED <<fs, user_elements, final_elements, provided, provided_by, result, report,
                 processed, skipped, call, how, first, lk, mn>>

\* lines 102-103 ending in line 48: another I/O error propagates
IOErrorRaised ==
  /\ AtLoop
  /\ ~IsProvided(Head(check_queue), provided)
  /\ LET m == Fetch(Head(check_queue))
     IN /\ m.kind = "raise"
        /\ queries' = queries \o m.asked
  /\ check_queue' = Tail(check_queue)
  /\ pc' = "raised"
  /\ outcome' = "IOError"
  /\ UNCHANGED <<fs, user_elements, final_elements, provided, provided_by, result, report,
                 processed, skipped, call, how, first, lk, mn>>

\* lines 112-115
MissingOperatingSystem ==
  /\ AfterLoop
  /\ Validate(user_elements, provided) = "MissingOperatingSystem"
  /\ pc' = "exited"
  /\ outcome' = "MissingOperatingSystem"
  /\ UNCHANGED <<fs, user_elements, final_elements, check_queue, provided, provided_by,
                 result, report, processed, skipped, queries, call, how, first, lk, mn>>

\* lines 117-124
ConflictingElements ==
  /\ AfterLoop
  /\ Validate(user_elements, provided) = "ConflictingElements"
  /\ report' = {[element |-> c, by |-> Providers(provided_by, c)] :
                  c \in Conflicts(user_elements, provided)}
  /\ pc' = "exited"
  /\ outcome' = "ConflictingElements"
  /\ UNCHANGED <<fs, user_elements, final_elements, check_queue, provided, provided_by,
                 result, processed, skipped, queries, call, how, first, lk, mn>>

\* line 125
ReturnClosure ==
  /\ AfterLoop
  /\ Validate(user_elements, provided) = "ok"
  /\ result' = Closure(final_elements, provided)
  /\ pc' = "returned"
  /\ outcome' = "ok"
  /\ UNCHANGED <<fs, user_elements, final_elements, check_queue, provided, provided_by,
                 report, processed, skipped, queries, call, how, first, lk, mn>>

\* lines 91-94: the state a call starts its loop in
Start(user) ==
  /\ user_elements' = user
  /\ final_elements' = InitialFinal(user)
  /\ check_queue' = user
  /\ provided' = {}
  /\ provided_by' = [n \in {} |-> <<>>]
  /\ pc' = "loop"
  /\ outcome' = "running"
  /\ result' = {}
  /\ report' = {}
  /\ processed' = <<>>
  /\ skipped' = {}
  /\ queries' = <<>>

Remember ==
  first' = [outcome |-> outcome, result |-> result, provided |-> provided,
            processed |-> Range(processed), user |-> Range(user_elements)]

\* a second call on the same store with the same user elements in another order
CallAgainSame ==
  /\ Ended /\ call = 1
  /\ \E user \in Rearrangements(user_elements) : Start(user)
  /\ Remember
  /\ call' = 2 /\ how' = "same"
  /\ UNCHANGED <<fs, lk, mn>>

\* a second call on the same store with the returned closure as the user elements
CallAgainClosure ==
  /\ pc = "returned" /\ call = 1
  /\ \E user \in Orders(result) : Start(user)
  /\ Remember
  /\ call' = 2 /\ how' = "closure"
  /\ UNCHANGED <<fs, lk, mn>>

\* ------------------------------------------------------ the stores drawn
RECURSIVE SeqOf(_)
SeqOf(S) == IF S = {} THEN <<>> ELSE LET x == CHOOSE y \in S : TRUE IN <<x>> \o SeqOf(S \ {x})

\* a line of a metadata file as read: the name, a newline, and for B some padding
RawLine(n) == IF n = B THEN <<" ">> \o n \o <<"\t", "\n">> ELSE n \o <<"\n">>

\* the metadata lines a store can hold: element, file, name
PossibleLines == {[el |-> e, fname |-> f, name |-> n] : e \in {A, B}, f \in FNames, n \in Names}
Stores == {S \in SUBSET PossibleLines : Cardinality(S) <= MaxLines}
LinesOf(S, e, f) == {l.name : l \in {x \in S : x.el = e /\ x.fname = f}}

HasLines(S, e) == \E f \in FNames : LinesOf(S, e, f) # {}

DeniedDeps == [exists |-> TRUE, file |-> [f \in FNames |-> IF f = DEPS THEN Denied ELSE NoFile]]
DeniedProvides ==
  [exists |-> TRUE, file |-> [f \in FNames |-> IF f = PROVIDES THEN Denied ELSE NoFile]]

\* what the directory of an element without metadata lines can be
Bare(e) == IF e = B THEN {NoDir, EmptyDir, DeniedDeps, DeniedProvides} ELSE {NoDir, EmptyDir}

DirOf(S, e, bare) ==
  IF ~HasLines(S, e) THEN bare
  ELSE [exists |-> TRUE,
        file |-> [f \in FNames |->
                    IF LinesOf(S, e, f) = {} THEN NoFile
                    ELSE File([k \in DOMAIN SeqOf(LinesOf(S, e, f)) |->
                                 RawLine(SeqOf(LinesOf(S, e, f))[k])])]]

\* the entry of the search path that holds an element's directory
Home(e) == IF e = A THEN 1 ELSE NPath

\* entry i of the search path: the directories it holds, by element name
MkFs(S, bare) ==
  [i \in 1..NPath |->
     [e \in {x \in Names : Home(x) = i /\ DirOf(S, x, bare[x]) # NoDir} |-> DirOf(S, e, bare[e])]]

UserNames == {A, B}
UserLists == UNION {[1..n -> UserNames] : n \in 1..MaxUser}

NoFirst == [outcome |-> "none", result |-> {}, provided |-> {}, processed |-> {}, user |-> {}]
NoMain == [elements |-> <<>>, flag |-> FALSE, enabled |-> FALSE, warned |-> FALSE,
           printed |-> <<>>, status |-> "none"]
NoLookup == [element |-> <<>>, fname |-> "none", res |-> Exit(0)]

Init ==
  /\ \E S \in Stores : \E bare \in [Names -> UNION {Bare(e) : e \in Names}] :
       /\ \A e \in Names : bare[e] \in (IF HasLines(S, e) THEN {NoDir} ELSE Bare(e))
       /\ fs = MkFs(S, bare)
  /\ user_elements \in UserLists
  /\ final_elements = InitialFinal(user_elements)
  /\ check_queue = user_elements
  /\ provided = {}
  /\ provided_by = [n \in {} |-> <<>>]
  /\ pc = "loop"
  /\ outcome = "running"
  /\ result = {}
  /\ report = {}
  /\ processed = <<>>
  /\ skipped = {}
  /\ queries = <<>>
  /\ call = 1
  /\ how = "first"
  /\ first = NoFirst
  /\ lk = NoLookup
  /\ mn = NoMain

Next ==
  \/ Skip
  \/ Expand
  \/ ElementNotFound
  \/ IOErrorRaised
  \/ MissingOperatingSystem
  \/ ConflictingElements
  \/ ReturnClosure
  \/ CallAgainSame
  \/ CallAgainClosure

Spec == Init /\ [][Next]_vars

\* ------------------------------------------------ one call, run to its end
\* the steps of one call of expand_dependencies
NextFair ==
  \/ Skip
  \/ Expand
  \/ ElementNotFound
  \/ IOErrorRaised
  \/ MissingOperatingSystem
  \/ ConflictingElements
  \/ ReturnClosure

\* the call has a step to take exactly while it is in the loop or at the validation
CanStep == pc = "loop"

\* the interpreter runs the single thread on, a step that can be taken is taken:
\* WF_vars(NextFair) written out, with CanStep for ENABLED <<NextFair>>_vars
Fairness == []<>(~CanStep) \/ []<><<NextFair>>_vars

SpecFair == Init /\ [][NextFair]_vars /\ Fairness

\* ------------------------------------------------ standalone lookups
Digit(i) == <<"1", "2", "3", "4">>[i]

\* a name that tells the entries of the search path apart
Mark(i) == <<"entry", Digit(i)>>

Unsearchable == [exists |-> FALSE, file |-> [f \in FNames |-> Denied]]

\* the directories an entry i can hold for the element looked up
LookupDirs(i) ==
  {NoDir, EmptyDir, DeniedDeps, DeniedProvides, Unsearchable,
   [exists |-> TRUE,
    file |-> [f \in FNames |-> IF f = DEPS THEN File(<<RawLine(B), Mark(i) \o <<"\n">>>>)
                               ELSE NoFile]],
   [exists |-> TRUE,
    file |-> [f \in FNames |-> IF f = PROVIDES THEN File(<<RawLine(OS), Mark(i)>>)
                               ELSE NoFile]],
   [exists |-> TRUE,
    file |-> [f \in FNames |-> IF f = DEPS
                               THEN File(<<<<"\t">> \o Mark(i) \o <<" ", "\n">>, <<"\n">>,
                                           <<" ", "\n">>, RawLine(B), B \o <<"\n">>>>)
                               ELSE File(<<>>)]]}

InitLookup ==
  /\ \E d \in [1..NPath -> UNION {LookupDirs(i) : i \in 1..NPath}] :
       /\ \A i \in 1..NPath : d[i] \in LookupDirs(i)
       /\ fs = [i \in 1..NPath |-> [e \in {x \in {A} : d[i] # NoDir} |-> d[i]]]
  /\ user_elements = <<>>
  /\ final_elements = {}
  /\ check_queue = <<>>
  /\ provided = {}
  /\ provided_by = [n \in {} |-> <<>>]
  /\ pc = "idle"
  /\ outcome = "none"
  /\ result = {}
  /\ report = {}
  /\ processed = <<>>
  /\ skipped = {}
  /\ queries = <<>>
  /\ call = 0
  /\ how = "lookup"
  /\ first = NoFirst
  /\ lk = NoLookup
  /\ mn = NoMain

\* dependencies(element), lines 67-77
CallDependencies ==
  /\ pc = "idle"
  /\ \E e \in {A, B} : lk' = [element |-> e, fname |-> DEPS, res |-> dependencies(e)]
  /\ UNCHANGED <<fs, user_elements, final_elements, check_queue, provided, provided_by, pc,
                 outcome, result, report, processed, skipped, queries, call, how, first, mn>>

\* provides(element), lines 54-64
CallProvides ==
  /\ pc = "idle"
  /\ \E e \in {A, B} : lk' = [element |-> e, fname |-> PROVIDES, res |-> provides(e)]
  /\ UNCHANGED <<fs, user_elements, final_elements, check_queue, provided, provided_by, pc,
                 outcome, result, report, processed, skipped, queries, call, how, first, mn>>

NextLookup == CallDependencies \/ CallProvides

SpecLookup == InitLookup /\ [][NextLookup]_vars

\* ================================================================ claims
\* what the store says about an element (the empty set when the lookup fails)
DepsOf(x) == IF dependencies(x).kind = "set" THEN dependencies(x).val ELSE {}
ProvidesOf(x) == IF provides(x).kind = "set" THEN provides(x).val ELSE {}
Found(x) == dependencies(x).kind = "set" /\ provides(x).kind = "set"

\* everything reachable from S over dependency edges, S included
RECURSIVE Reach(_)
Reach(S) ==
  LET T == S \cup UNION {DepsOf(x) : x \in S} IN IF T = S THEN S ELSE Reach(T)

\* the same, following only the edges that leave elements outside P
RECURSIVE ReachOutside(_, _)
ReachOutside(S, P) ==
  LET T == S \cup UNION {DepsOf(x) : x \in S \ P} IN IF T = S THEN S ELSE ReachOutside(T, P)

User == Range(user_elements)
LoopCompleted == outcome \in {"ok", "MissingOperatingSystem", "ConflictingElements"}

\* C1: closure completeness.  When expand_dependencies returns, every element x of
\* the returned set was found in the store and every member of dependencies(x) is
\* in the returned set or in the final provided set.
C1_ClosureComplete ==
  pc = "returned" =>
    \A x \in result :
      /\ dependencies(x).kind = "set"
      /\ \A d \in dependencies(x).val : d \in result \/ d \in provided

\* a return where one element has a dependency in the result and one in provided
C1_Witness ==
  /\ pc = "returned"
  /\ \E x \in result :
       /\ \E d \in DepsOf(x) : d \in result /\ d # x
       /\ \E d \in DepsOf(x) : d \in provided

\* C2: subset law.  The returned set is final_elements minus provided as they stand
\* when the loop ends; it shares no member with provided, and holds no name that a
\* processed element declares in its provides.
C2_SubsetLaw ==
  pc = "returned" =>
    /\ result = final_elements \ provided
    /\ result \cap provided = {}
    /\ \A k \in DOMAIN processed : result \cap ProvidesOf(processed[k]) = {}

\* a return where the subtraction removes something
C2_Witness ==
  pc = "returned" /\ final_elements \cap provided # {} /\ result # {}

\* no element of R provides another element of R
NoInnerProvider(R) == \A x \in R : \A y \in R : x # y => y \notin ProvidesOf(x)

SecondOnClosure == call = 2 /\ how = "closure" /\ Ended

\* C3: idempotence.  Whenever a call succeeds with R and no element of R provides
\* another element of R, a second call with R as the user elements succeeds and
\* returns exactly R, whatever the processing orders.
C3_Idempotent ==
  (SecondOnClosure /\ NoInnerProvider(first.result)) =>
    (outcome = "ok" /\ result = first.result)

\* C4: order independence.  A second call on the same store with the same user
\* elements, under any order of the user list and of each newly discovered set,
\* ends the same way as the first and returns the same set.
C4_OrderIndependent ==
  (call = 2 /\ how = "same" /\ Ended) =>
    (outcome = first.outcome /\ result = first.result)

C6_ValidationOrder ==
  [][AfterLoop =>
       /\ (outcome' = "MissingOperatingSystem") <=> (OS \notin provided)
       /\ (outcome' = "ConflictingElements") <=> (OS \in provided /\ User \cap provided # {})
       /\ (outcome' = "ok") <=> (OS \in provided /\ User \cap provided = {})
       /\ pc' = IF outcome' = "ok" THEN "returned" ELSE "exited"]_vars

\* a call that ends with MissingOperatingSystem although a user element is provided
C6_Witness ==
  outcome = "MissingOperatingSystem" /\ User \cap provided # {} /\ OS \notin provided

\* the user elements that some processed element declares in its provides
Declared == {c \in User : \E k \in DOMAIN processed : c \in ProvidesOf(processed[k])}

\* the processed elements that declare c, in processing order
DeclaringIn(c) == SelectSeq(processed, LAMBDA e : c \in ProvidesOf(e))

\* C7 as claimed: whenever the user elements contain a name that a processed
\* element declares in its provides, the call ends with ConflictingElements.
C7_Conflict_claimed == (Ended /\ Declared # {}) => outcome = "ConflictingElements"

\* C7 amended: whenever the loop runs to completion with "operating-system" in
\* provided and the user elements contain a name that a processed element declares
\* in its provides, the call ends with ConflictingElements and the report names
\* each such name together with the elements that declare it.
C7_Conflict ==
  (Ended /\ LoopCompleted /\ OS \in provided /\ Declared # {}) =>
    /\ outcome = "ConflictingElements"
    /\ report = {[element |-> c, by |-> DeclaringIn(c)] : c \in Declared}
    /\ \A r \in report : r.by # <<>>

\* the scenario of the specification: user elements A and B, A provides B
C7_Witness ==
  /\ outcome = "ConflictingElements"
  /\ User = {A, B}
  /\ [element |-> B, by |-> <<A>>] \in report

\* C8: on every successful return the returned set contains every user element.
C8_UserInResult == pc = "returned" => User \subseteq result

\* a return for two user elements where something was subtracted
C8_Witness ==
  pc = "returned" /\ Cardinality(User) = 2 /\ final_elements # result /\ call = 1

\* every provided name is purely virtual: no user element, nobody's dependency
AllVirtual(R) ==
  UNION {ProvidesOf(x) : x \in R} \cap (User \cup UNION {DepsOf(x) : x \in R}) = {}

PlainStore ==
  LET R == Reach(User)
  IN /\ \A x \in R : Found(x)
     /\ \E x \in R : OS \in ProvidesOf(x)
     /\ AllVirtual(R)

IsStripOf(s, line) ==
  /\ s = <<>> \/ (s[1] \notin Whitespace /\ s[Len(s)] \notin Whitespace)
  /\ \E a \in 0..Len(line) : \E b \in 0..(Len(line) - a) :
       /\ s = SubSeq(line, a + 1, Len(line) - b)
       /\ \A k \in 1..a : line[k] \in Whitespace
       /\ \A k \in (Len(line) - b + 1)..Len(line) : line[k] \in Whitespace

WithDir(e) == {i \in 1..NPath : Exists(i, e)}
FirstWithDir(e) == CHOOSE i \in WithDir(e) : \A j \in WithDir(e) : i <= j

\* no I/O error other than "not found" up to and including entry k
Readable(e, f, k) ==
  /\ \A i \in 1..(k - 1) : Open(i, e, f).errno = ENOENT
  /\ Open(k, e, f).errno \in {0, ENOENT}

LookedUp == lk.fname \in FNames

\* C10: search-path lookup.  The lookup never consults an entry after the first one
\* that holds the element's directory, and (short of an I/O error other than "not
\* found") its result is decided there: the set of the stripped lines of the file
\* if the file is there, the empty set if it is absent.
C10_FirstDirectoryDecides ==
  (LookedUp /\ WithDir(lk.element) # {}) =>
    LET e == lk.element
        f == lk.fname
        k == FirstWithDir(e)
        r == Open(k, e, f)
    IN /\ lk.res.tried <= k
       /\ Readable(e, f, k) =>
            /\ lk.res.kind = "set"
            /\ lk.res.tried = k
            /\ r.errno = ENOENT => lk.res.val = {}
            /\ r.errno = 0 =>
                 /\ \A v \in lk.res.val : \E n \in DOMAIN r.lines : IsStripOf(v, r.lines[n])
                 /\ \A n \in DOMAIN r.lines : \E v \in lk.res.val : IsStripOf(v, r.lines[n])

\* a lookup answered with the empty set by a directory without the file, although
\* a later entry holds the file
C10_Witness ==
  /\ LookedUp /\ WithDir(lk.element) # {}
  /\ LET e == lk.element
         f == lk.fname
         k == FirstWithDir(e)
     IN /\ k > 1
        /\ Readable(e, f, k)
        /\ Open(k, e, f).errno = ENOENT
        /\ \E j \in (k + 1)..NPath : Open(j, e, f).errno = 0
        /\ lk.res = Return({}, k)


\* C11: ElementNotFound.  A lookup exits with ElementNotFound only when no entry of
\* the search path holds the element's directory, and then only after trying every
\* entry; when no entry holds the directory the lookup never returns a set, and
\* (short of an I/O error other than "not found") it exits with ElementNotFound.
C11_ElementNotFound ==
  LookedUp =>
    LET e == lk.element
        f == lk.fname
    IN /\ lk.res.kind = "exit" => (WithDir(e) = {} /\ lk.res.tried = NPath)
       /\ WithDir(e) = {} => lk.res.kind # "set"
       /\ (WithDir(e) = {} /\ \A i \in 1..NPath : Open(i, e, f).errno = ENOENT) =>
            lk.res = Exit(NPath)
       /\ WithDir(e) # {} => lk.res.kind # "exit"

\* a lookup of A, which no entry holds, ended by ElementNotFound after the last entry
C11_Witness ==
  /\ LookedUp /\ lk.element = A
  /\ WithDir(A) = {}
  /\ lk.res = Exit(NPath)


Failed == outcome \in {"ElementNotFound", "IOError", "MissingOperatingSystem",
                       "ConflictingElements"}

\* the _get_set call that query number k of the run stands for
Answer(k) == _get_set(queries[k][1], queries[k][2])

\* at most the last lookup of a run failed, and then the run has ended with it
LastLookupFatal ==
  \A k \in DOMAIN queries :
    Answer(k).kind # "set" =>
      /\ k = Len(queries)
      /\ outcome = (IF Answer(k).kind = "exit" THEN "ElementNotFound" ELSE "IOError")

\* C12: fail-fast, no partial result.  A failed lookup is the last lookup of its run;
\* a failed run has no returned set and a run that returned has not failed; and once
\* a run has failed, nothing of it changes any more: no lookup, no retry, no result.
C12_FailFast ==
  /\ [](/\ LastLookupFatal
        /\ Failed => (result = {} /\ pc \in {"exited", "raised"})
        /\ pc = "returned" <=> outcome = "ok")
  /\ [][(Failed /\ call' = call) =>
          UNCHANGED <<queries, result, outcome, pc, check_queue, final_elements, provided,
                      processed, skipped>>]_vars

\* a run ended by ElementNotFound with elements processed before and elements still
\* queued behind the missing one
C12_Witness ==
  /\ outcome = "ElementNotFound"
  /\ processed # <<>>
  /\ check_queue # <<>>
  /\ result = {}


\* ------------------------------------------------------------- the command
\* the stores the command is run on
MainStores == {S \in Stores : Cardinality(S) <= 2}

\* main(argv) after parse_args: the positional elements, the --expand-dependencies
\* flag, and whether the logger lets WARNING records through
InitMain ==
  /\ \E S \in MainStores : \E bare \in [Names -> UNION {Bare(e) : e \in Names}] :
       /\ \A e \in Names : bare[e] \in (IF HasLines(S, e) THEN {NoDir} ELSE Bare(e))
       /\ fs = MkFs(S, bare)
  /\ \E els \in UserLists : \E flag \in BOOLEAN : \E enabled \in BOOLEAN :
       mn = [elements |-> els, flag |-> flag, enabled |-> enabled, warned |-> FALSE,
             printed |-> <<>>, status |-> "running"]
  /\ user_elements = <<>>
  /\ final_elements = {}
  /\ check_queue = <<>>
  /\ provided = {}
  /\ provided_by = [n \in {} |-> <<>>]
  /\ pc = "main"
  /\ outcome = "none"
  /\ result = {}
  /\ report = {}
  /\ processed = <<>>
  /\ skipped = {}
  /\ queries = <<>>
  /\ call = 1
  /\ how = "main"
  /\ first = NoFirst
  /\ lk = NoLookup

\* lines 141-143 with WARNING enabled: Logger.warning hands the keyword file to
\* Logger._log, which has no such parameter, and the TypeError leaves main
MainWarningRaises ==
  /\ pc = "main"
  /\ mn.flag /\ mn.enabled
  /\ pc' = "raised"
  /\ outcome' = "TypeError"
  /\ mn' = [mn EXCEPT !.status = "TypeError"]
  /\ UNCHANGED <<fs, user_elements, final_elements, check_queue, provided, provided_by,
                 result, report, processed, skipped, queries, call, how, first, lk>>

\* lines 141-145: no flag, or a logger that drops WARNING records before looking at
\* the arguments; expand_dependencies(args.elements) is entered
MainExpands ==
  /\ pc = "main"
  /\ ~mn.flag \/ ~mn.enabled
  /\ Start(mn.elements)
  /\ UNCHANGED <<fs, call, how, first, lk, mn>>

\* lines 145-146: print(' '.join(...)) in the set's iteration order, return 0
MainPrints ==
  /\ pc = "returned"
  /\ mn.status = "running"
  /\ \E line \in Orders(result) : mn' = [mn EXCEPT !.printed = line, !.status = "0"]
  /\ UNCHANGED <<fs, user_elements, final_elements, check_queue, provided, provided_by, pc,
                 outcome, result, report, processed, skipped, queries, call, how, first, lk>>

NextMain ==
  \/ MainWarningRaises
  \/ MainExpands
  \/ Skip
  \/ Expand
  \/ ElementNotFound
  \/ IOErrorRaised
  \/ MissingOperatingSystem
  \/ ConflictingElements
  \/ ReturnClosure
  \/ MainPrints

SpecMain == InitMain /\ [][NextMain]_vars

\* C13: legacy flag.  A command given --expand-dependencies is accepted without
\* error: once past the flag it has emitted the deprecation warning and goes on
\* into the expansion as it does without the flag.
C13_LegacyFlag ==
  (mn.flag /\ pc # "main") => (mn.warned /\ outcome # "TypeError" /\ mn.status # "TypeError")


\* C14: termination.  In every call, on every store (cyclic dependencies, elements
\* that provide each other or themselves) and for every user list, the loop ends:
\* eventually the queue is empty or a fatal error has ended the run.
C14_Termination == AtLoop ~> (AfterLoop \/ Ended)

\* the loop has ended on a store where A and B depend on each other and on themselves
C14_Witness ==
  /\ AfterLoop
  /\ {A, B} \subseteq DepsOf(A) /\ {A, B} \subseteq DepsOf(B)
  /\ Len(processed) = 2


\* C15: single fetch.  Within one run of expand_dependencies no file of an element is
\* asked for twice: the lookups of the run are pairwise different, whatever list
\* the caller passes, a list that names an element twice included.
C15_SingleFetch ==
  \A j, k \in DOMAIN queries : queries[j] = queries[k] => j = k

\* C16: skip rule.  When the element at the head of the queue is in provided, the
\* step that dequeues it issues no lookup, adds nothing to final_elements, provided
\* or provided_by, and fails nothing: the loop goes on with the rest of the queue,
\* whether or not a directory of the element exists.
C16_SkipRule ==
  [][(AtLoop /\ Head(check_queue) \in provided) =>
       /\ queries' = queries
       /\ processed' = processed
       /\ final_elements' = final_elements
       /\ provided' = provided
       /\ provided_by' = provided_by
       /\ check_queue' = Tail(check_queue)
       /\ pc' = "loop"
       /\ outcome' = outcome]_vars

\* a run has succeeded although it dequeued a provided element that has no directory
C16_Witness ==
  /\ pc = "returned"
  /\ \E e \in skipped : WithDir(e) = {} /\ \A k \in DOMAIN queries : queries[k][1] # e

\* C17: monotonicity.  Within a run no step takes a name out of provided.
C17_ProvidedMonotone ==
  [][call' = call => provided \subseteq provided']_vars

\* provided has grown in two steps: two processed elements each brought a name of its own
C17_Witness ==
  /\ AfterLoop
  /\ \E j, k \in DOMAIN processed :
       /\ j < k
       /\ ProvidesOf(processed[j]) # {}
       /\ ProvidesOf(processed[k]) \ ProvidesOf(processed[j]) # {}

\* C18: worklist invariant.  At every loop head each queued element is in
\* final_elements, and each member of final_elements that is not in provided is
\* still queued or has been processed: its two files were asked for and all its
\* dependencies are in final_elements.
C18_Worklist ==
  pc = "loop" =>
    /\ Range(check_queue) \subseteq final_elements
    /\ \A x \in final_elements \ provided :
         \/ x \in Range(check_queue)
         \/ /\ x \in Range(processed)
            /\ \E j, k \in DOMAIN queries :
                 queries[j] = <<x, "element-deps">> /\ queries[k] = <<x, "element-provides">>
            /\ DepsOf(x) \subseteq final_elements

\* a loop head with one element processed, a dependency of it still queued and
\* another member of final_elements covered by provided only
C18_Witness ==
  /\ AtLoop
  /\ processed # <<>>
  /\ Range(check_queue) \ User # {}
  /\ \E x \in final_elements \cap provided : x \notin Range(check_queue) /\ x \notin Range(processed)

\* C19: result elements exist.  Every element of a returned set was dequeued and
\* processed rather than skipped, both its files were looked up with success, and
\* a directory of it exists on the search path.
C19_ResultElementsExist ==
  pc = "returned" =>
    \A x \in result :
      /\ x \in Range(processed)
      /\ x \notin skipped
      /\ \E j, k \in DOMAIN queries :
           queries[j] = <<x, "element-deps">> /\ queries[k] = <<x, "element-provides">>
      /\ Found(x)
      /\ WithDir(x) # {}

\* a returned set that leaves out a skipped element of final_elements
C19_Witness ==
  /\ pc = "returned"
  /\ Cardinality(result) >= 2
  /\ skipped # {}
  /\ final_elements \ result # {}

\* C20: provider index consistency.  At every loop head provided is the set of names
\* with a non-empty provided_by list, and provided_by of a name lists, in
\* processing order, exactly the processed elements whose provides hold the name;
\* so a ConflictingElements failure reports each name with a non-empty list of
\* elements that declare it.
C20_ProviderIndex ==
  /\ pc = "loop" =>
       /\ provided = {n \in DOMAIN provided_by : provided_by[n] # <<>>}
       /\ \A n \in Names \cup DOMAIN provided_by \cup provided :
            Providers(provided_by, n) = DeclaringIn(n)
  /\ outcome = "ConflictingElements" =>
       \A r \in report :
         /\ r.by # <<>>
         /\ r.by = DeclaringIn(r.element)
         /\ \A k \in DOMAIN r.by : r.element \in ProvidesOf(r.by[k])

\* a loop head where a name has two different providers listed
C20_Witness ==
  /\ pc = "loop"
  /\ \E n \in DOMAIN provided_by :
       Len(provided_by[n]) = 2 /\ provided_by[n][1] # provided_by[n][2]

\* CanStep is the enabling condition of the steps of a call
CanStepIsEnabled == CanStep <=> ENABLED <<NextFair>>_vars

====
